---- MODULE Spec2Model ----
(***************************************************************************)
(* Think Board backend: the Express middleware stack of server.js, the     *)
(* auth controller (register, login), the notes controller (getAllNotes,   *)
(* getNoteById, createNote, updateNote, deleteNote) and the Mongoose       *)
(* schemas User and Note.                                                  *)
(*                                                                         *)
(* Strings whose characters matter (usernames, passwords) are sequences of *)
(* one-character strings, so that trim and length are computed.  Time is   *)
(* counted in minutes.  The password hash is modelled by its preimage      *)
(* (bcrypt.compare succeeds exactly on the hashed password); the random    *)
(* salt is not modelled.  The rate limiter and the request gate            *)
(* (authMiddleware) are modelled from the specification: their files are   *)
(* not among the sources.                                                  *)
(***************************************************************************)
EXTENDS Integers, Sequences, FiniteSets, TLC

\* ------------------------------------------------------------- bounds
\* how many notes are ever created in one behaviour
MaxNotes == 2
\* how many register requests may be between their findOne and their save
MaxInflight == 2
\* how many minted tokens the model keeps to present them again
MaxTokens == 2
\* the early instants of the clock are 0..MaxEarly
MaxEarly == 1
\* the late instants, which SpecTime visits as well, are 59 .. 59 + MaxLate
MaxLate == 3
\* the rate limiter's threshold (requests admitted per window)
RateThreshold == 2

\* ------------------------------------------------------ program constants
\* userSchema.username.minlength
MinUsernameLen == 3
\* userSchema.password.minlength (validates the stored value, i.e. the hash)
MinPasswordLen == 6
\* length of a bcrypt hash string, the value stored in User.password
BcryptHashLen == 60

\* jwt.sign(..., { expiresIn: '1h' }), in minutes
TokenLifetimeHalved == 60 \div 2
TokenLifetime == 60

\* ------------------------------------------------------------ strings
Bob == <<"b", "o", "b">>
SpBob == <<" ", "b", "o", "b">>
Amy == <<"a", "m", "y">>
SpA == <<" ", "a", " ">>
Ab == <<"a", "b">>
Empty == <<>>

Secret == <<"s", "e", "c", "r", "e", "t">>
Hunter == <<"h", "u", "n", "t", "e", "r">>
Abc == <<"a", "b", "c">>

\* a field that is absent from a JSON body (undefined)
Undefined == "undefined"

RECURSIVE TrimStart(_)
TrimStart(s) ==
    IF s = <<>> THEN s
    ELSE IF Head(s) = " " THEN TrimStart(Tail(s)) ELSE s

RECURSIVE TrimEnd(_)
TrimEnd(s) ==
    IF s = <<>> THEN s
    ELSE IF s[Len(s)] = " " THEN TrimEnd(SubSeq(s, 1, Len(s) - 1)) ELSE s

\* String.prototype.trim
Trim(s) == TrimEnd(TrimStart(s))

\* JavaScript falsiness of a string field: undefined or ""
Falsy(s) == s = <<>>

\* ------------------------------------------------------------ bcrypt
\* bcrypt.hash(password, salt): the stored string, of BcryptHashLen characters
Hash(p) == [alg |-> "bcrypt", pre |-> p]
HashLen(h) == BcryptHashLen
\* bcrypt.compare(password, hash)
Compare(p, h) == h = Hash(p)

\* ------------------------------------------------------------ identifiers
\* ObjectIds: <<collection tag, serial>>; NoId is "no id", BadId a string that
\* is no ObjectId
UserId(n) == <<"u", n>>
NoteId(n) == <<"n", n>>
NoId == <<"-", 0>>
BadId == <<"bad", 0>>
IsObjectId(id) == id[1] \in {"u", "n"}

\* ------------------------------------------------------------ records
\* a bearer credential as presented in the Authorization header; kind "jwt" is
\* a token signed by login, "forged" one whose signature does not verify
NoCred == [kind |-> "none", id |-> NoId, username |-> <<>>, iat |-> 0, exp |-> 0]
Malformed == [NoCred EXCEPT !.kind = "malformed"]
Forged(uid) == [NoCred EXCEPT !.kind = "forged", !.id = uid]

NoNote ==
    [id |-> NoId, title |-> Undefined, content |-> Undefined, user |-> NoId,
     createdAt |-> 0, updatedAt |-> 0]

\* a notes request body: title, content and the extra fields user and _id a
\* client may add
NoBody == [title |-> Undefined, content |-> Undefined, user |-> NoId, id |-> NoId]

\* the request that was answered last, with its response
Blank ==
    [op |-> "none", step |-> "arrive", by |-> "none", status |-> 0,
     message |-> "", cred |-> NoCred, caller |-> NoId,
     username |-> <<>>, password |-> <<>>, id |-> NoId, body |-> NoBody,
     out |-> NoNote, list |-> <<>>, token |-> NoCred]

IdleSlot == [pc |-> "idle", username |-> <<>>, password |-> <<>>]

\* a notes request whose handler awaits its store operation: the request, and
\* once served its response; arrived and served count the calls served
\* before its arrival and up to its service
IdleCall == [pc |-> "idle", req |-> Blank, arrived |-> 0, served |-> 0]

\* JavaScript values the auth context's user takes: null, or an object
\* { id, username }
Null == [type |-> "null", id |-> NoId, username |-> <<>>]
UserObject(id, username) == [type |-> "object", id |-> id, username |-> username]

\* localStorage.getItem('user'): null when the entry is absent, else the
\* stored text, which is empty, the JSON text of a value, or no JSON at all
NoItem == [type |-> "absent", value |-> Null]
EmptyText == [type |-> "empty", value |-> Null]
NotJson == [type |-> "text", value |-> Null]

\* localStorage.getItem('token'): null when absent, else the stored text
NoToken == [type |-> "absent", cred |-> NoCred]
TokenText(cred) == [type |-> "text", cred |-> cred]

\* no localStorage entry, or an empty text: falsy in `token && storedUser`
Truthy(item) == item.type \notin {"absent", "empty"}

\* JSON.stringify(value) and JSON.parse(text); parse throws on a text that is
\* not JSON
Stringify(value) == [type |-> "json", value |-> value]
ParseThrows(item) == item.type # "json"
Parse(item) == item.value

\* no reply awaited by the client
NoReply == [kind |-> "none", res |-> Blank]

\* the browser when the application is loaded: useState(null), useState(true),
\* nothing rendered yet, localStorage as the previous visit left it
NewClient(token, storedUser, path) ==
    [user |-> Null, loading |-> TRUE, token |-> token, storedUser |-> storedUser,
     path |-> path, page |-> "none", pending |-> NoReply,
     did |-> "load", to |-> path]

VARIABLES
    users,      \* the User collection: [id, username, password]
    notes,      \* the Note collection: [id, title, content, user, createdAt, updatedAt]
    nextUser,   \* serial of the next User ObjectId
    nextNote,   \* serial of the next Note ObjectId
    now,        \* the clock, in minutes
    hits,       \* the rate limiter's counter for the current window
    reg,        \* register requests in flight: slot -> [pc, username, password]
    tokens,     \* tokens minted by login that clients still present
    last,       \* the last response, with its request
    calls,      \* notes requests awaiting their store operation: slot -> call
    client      \* the browser: auth context, localStorage, location, page

vars == <<users, notes, nextUser, nextNote, now, hits, reg, tokens, last, calls,
          client>>
stores == <<users, notes, nextUser, nextNote, reg, tokens>>

Slots == 1..MaxInflight
Range(f) == {f[i] : i \in DOMAIN f}

InitServer ==
    /\ users = {}
    /\ notes = {}
    /\ nextUser = 1
    /\ nextNote = 1
    /\ now = 0
    /\ hits = 0
    /\ reg = [s \in Slots |-> IdleSlot]
    /\ tokens = {}
    /\ last = Blank
    /\ calls = [s \in Slots |-> IdleCall]

\* the server freshly started and a browser that opens the application at
\* "/" with an empty localStorage
Init == InitServer /\ client = NewClient(NoToken, NoItem, "/")

\* ------------------------------------------------------------ middleware
AuthPath == "/api/auth"
NotesPath == "/api/notes"

\* server.js: app.use(rateLimiter); app.use("/api/auth", authRoutes);
\* app.use("/api/notes", authMiddleware, notesRoutes)
AppStackNoGate ==
    << [path |-> "/", fn |-> "rateLimiter"],
       [path |-> AuthPath, fn |-> "authRoutes"],
       [path |-> NotesPath, fn |-> "notesRoutes"] >>
AppStackLimiterAfterAuth ==
    << [path |-> AuthPath, fn |-> "authRoutes"],
       [path |-> "/", fn |-> "rateLimiter"],
       [path |-> NotesPath, fn |-> "authMiddleware"],
       [path |-> NotesPath, fn |-> "notesRoutes"] >>
AppStack ==
    << [path |-> "/", fn |-> "rateLimiter"],
       [path |-> AuthPath, fn |-> "authRoutes"],
       [path |-> NotesPath, fn |-> "authMiddleware"],
       [path |-> NotesPath, fn |-> "notesRoutes"] >>

\* app.use(path, fn) runs fn for the requests under path
Mounted(mount, path) == mount = "/" \/ mount = path

\* rateLimiter: admits while the window's counter is under the threshold
rateLimiterAdmits == hits < RateThreshold

\* authMiddleware: a bearer token whose signature verifies and which has not
\* expired (jwt.verify rejects once the clock has reached exp)
authMiddlewareAccepts(cred) == cred.kind = "jwt" /\ now < cred.exp

\* whether middleware fn calls next() or ends the request itself
CallsNext(fn, cred) ==
    CASE fn = "rateLimiter" -> rateLimiterAdmits
      [] fn = "authMiddleware" -> authMiddlewareAccepts(cred)
      [] OTHER -> FALSE

\* the middleware functions a request runs through, in order; the last one
\* answers it
RECURSIVE Run(_, _, _, _)
Run(stack, path, cred, i) ==
    IF i > Len(stack) THEN <<>>
    ELSE IF ~Mounted(stack[i].path, path) THEN Run(stack, path, cred, i + 1)
    ELSE IF CallsNext(stack[i].fn, cred)
         THEN <<stack[i].fn>> \o Run(stack, path, cred, i + 1)
         ELSE <<stack[i].fn>>

Ran(path, cred) == Run(AppStack, path, cred, 1)
Answerer(path, cred) ==
    LET r == Ran(path, cred) IN IF r = <<>> THEN "none" ELSE r[Len(r)]

\* req.user.id as the handler reads it: set by authMiddleware, else undefined
ReqUserId(path, cred) ==
    IF "authMiddleware" \in Range(Ran(path, cred)) THEN cred.id ELSE NoId

\* the limiter counts the requests it admits
HitsAfter(path, cred) ==
    IF "rateLimiter" \in Range(Ran(path, cred)) /\ rateLimiterAdmits
    THEN hits + 1 ELSE hits

TooManyRequests(req) ==
    [req EXCEPT !.status = 429, !.message = "Too many requests"]
Unauthorized(req) ==
    [req EXCEPT !.status = 401, !.message = "Unauthorized"]

\* ------------------------------------------------------------ User model
\* the `trim: true` setter of userSchema.username; Mongoose applies a path's
\* setters to documents and to query filters alike
UsernameSetter(s) == Trim(s)

\* User.findOne({ username })
FindUserUncast(username) == {x \in users : x.username = username}
FindUser(username) == {x \in users : x.username = UsernameSetter(username)}

\* userSchema validation of a document on save: username required with
\* minlength 3 (after trim), password required with minlength 6 (the stored
\* value, which is the hash)
UserValid(doc) ==
    /\ doc.username # <<>>
    /\ Len(doc.username) >= MinUsernameLen
    /\ HashLen(doc.password) >= MinPasswordLen

\* the unique index on username
DuplicateKey(doc) == \E x \in users : x.username = doc.username

\* ------------------------------------------------------------ authController
FreeSlots == {s \in Slots : reg[s].pc = "idle"}

\* register, up to the await of User.findOne: the required-field check and
\* the existence check
registerNoExistenceCheck(req) ==
    IF Falsy(req.username) \/ Falsy(req.password)
    THEN /\ last' = [req EXCEPT !.status = 400,
                        !.message = "Username and password are required"]
         /\ UNCHANGED stores
    ELSE /\ FreeSlots # {}
         /\ LET s == CHOOSE x \in FreeSlots : \A y \in FreeSlots : x <= y IN
            reg' = [reg EXCEPT ![s] = [pc |-> "checked", username |-> req.username,
                                       password |-> req.password]]
         /\ last' = req
         /\ UNCHANGED <<users, notes, nextUser, nextNote, tokens>>
register(req) ==
    IF Falsy(req.username) \/ Falsy(req.password)
    THEN /\ last' = [req EXCEPT !.status = 400,
                        !.message = "Username and password are required"]
         /\ UNCHANGED stores
    ELSE IF FindUser(req.username) # {}
    THEN /\ last' = [req EXCEPT !.status = 400,
                        !.message = "Username already exists"]
         /\ UNCHANGED stores
    ELSE /\ FreeSlots # {}
         /\ LET s == CHOOSE x \in FreeSlots : \A y \in FreeSlots : x <= y IN
            reg' = [reg EXCEPT ![s] = [pc |-> "checked", username |-> req.username,
                                       password |-> req.password]]
         /\ last' = req
         /\ UNCHANGED <<users, notes, nextUser, nextNote, tokens>>

\* register, from bcrypt.hash to the response: new User(...).save() validates
\* the document and inserts it under the unique index; any rejection is caught
\* and answered 500
registerSave(s) ==
    /\ reg[s].pc = "checked"
    /\ LET doc == [id |-> UserId(nextUser),
                   username |-> UsernameSetter(reg[s].username),
                   password |-> Hash(reg[s].password)]
           req == [Blank EXCEPT !.op = "register", !.step = "save",
                                !.by = "authRoutes",
                                !.username = reg[s].username,
                                !.password = reg[s].password]
           ok == UserValid(doc) /\ ~DuplicateKey(doc)
       IN  /\ users' = IF ok THEN users \cup {doc} ELSE users
           /\ nextUser' = IF ok THEN nextUser + 1 ELSE nextUser
           /\ reg' = [reg EXCEPT ![s] = IdleSlot]
           /\ last' = IF ok
                      THEN [req EXCEPT !.status = 201,
                               !.message = "User registered successfully"]
                      ELSE [req EXCEPT !.status = 500, !.message = "Server error"]
    /\ UNCHANGED <<notes, nextNote, now, hits, tokens, calls, client>>

\* jwt.sign({ id, username }, secret, { expiresIn: '1h' })
Sign(user) ==
    [kind |-> "jwt", id |-> user.id, username |-> user.username,
     iat |-> now, exp |-> now + TokenLifetime]

\* the response of login
loginResponseRevealsUser(req) ==
    IF Falsy(req.username) \/ Falsy(req.password)
    THEN [req EXCEPT !.status = 400,
             !.message = "Username and password are required"]
    ELSE IF FindUser(req.username) = {}
    THEN [req EXCEPT !.status = 404, !.message = "User not found"]
    ELSE LET user == CHOOSE x \in FindUser(req.username) : TRUE IN
         IF ~Compare(req.password, user.password)
         THEN [req EXCEPT !.status = 400, !.message = "Invalid credentials"]
         ELSE [req EXCEPT !.status = 200, !.token = Sign(user)]
loginResponse(req) ==
    IF Falsy(req.username) \/ Falsy(req.password)
    THEN [req EXCEPT !.status = 400,
             !.message = "Username and password are required"]
    ELSE IF FindUser(req.username) = {}
    THEN [req EXCEPT !.status = 400, !.message = "Invalid credentials"]
    ELSE LET user == CHOOSE x \in FindUser(req.username) : TRUE IN
         IF ~Compare(req.password, user.password)
         THEN [req EXCEPT !.status = 400, !.message = "Invalid credentials"]
         ELSE [req EXCEPT !.status = 200, !.token = Sign(user)]

\* login changes no collection; the model keeps the minted token (up to
\* MaxTokens of them) so that later requests can present it
login(req) ==
    /\ last' = loginResponse(req)
    /\ tokens' = IF loginResponse(req).status = 200
                    /\ Cardinality(tokens) < MaxTokens
                 THEN tokens \cup {loginResponse(req).token} ELSE tokens
    /\ UNCHANGED <<users, notes, nextUser, nextNote, reg>>

\* a request to /api/auth/<op>: through the middleware stack to its handler
AuthRequest(op, username, password) ==
    LET by == Answerer(AuthPath, NoCred)
        req == [Blank EXCEPT !.op = op, !.by = by,
                             !.username = username, !.password = password]
    IN  /\ hits' = HitsAfter(AuthPath, NoCred)
        /\ UNCHANGED <<now, calls>>
        /\ CASE by = "rateLimiter" ->
                    last' = TooManyRequests(req) /\ UNCHANGED stores
             [] by = "authRoutes" /\ op = "register" -> register(req)
             [] by = "authRoutes" /\ op = "login" -> login(req)
             [] OTHER -> FALSE

Register(username, password) ==
    AuthRequest("register", username, password) /\ UNCHANGED client
Login(username, password) ==
    AuthRequest("login", username, password) /\ UNCHANGED client

\* ------------------------------------------------------------ Note model
\* noteSchema validation on save: title, content and user are required (a
\* required String rejects undefined and the empty string)
NoteValid(doc) ==
    /\ doc.title \notin {Undefined, ""}
    /\ doc.content \notin {Undefined, ""}
    /\ doc.user # NoId

\* the notes a query filter { _id, user } matches
Match(id, user) == {n \in notes : n.id = id /\ n.user = user}

\* .sort({ createdAt: -1 }): every order of S with createdAt descending (the
\* order among equal createdAt is the store's choice)
RECURSIVE SortCreatedAtDesc(_)
SortCreatedAtDesc(S) ==
    IF S = {} THEN {<<>>}
    ELSE UNION {{<<m>> \o r : r \in SortCreatedAtDesc(S \ {m})} :
                m \in {x \in S : \A y \in S : x.createdAt >= y.createdAt}}

\* ------------------------------------------------------------ notesController
\* reading req.user.id when req.user is undefined throws inside the try block
InternalError(req) ==
    [req EXCEPT !.status = 500, !.message = "Internal server error"]

getAllNotesUnfiltered(req) ==
    /\ IF req.caller = NoId
       THEN last' = InternalError(req)
       ELSE \E l \in SortCreatedAtDesc(notes) :
                last' = [req EXCEPT !.status = 200, !.list = l]
    /\ UNCHANGED stores
getAllNotes(req) ==
    /\ IF req.caller = NoId
       THEN last' = InternalError(req)
       ELSE \E l \in SortCreatedAtDesc({n \in notes : n.user = req.caller}) :
                last' = [req EXCEPT !.status = 200, !.list = l]
    /\ UNCHANGED stores

getNoteByIdResponseAnyOwner(req) ==
    IF req.caller = NoId \/ ~IsObjectId(req.id)
    THEN InternalError(req)
    ELSE IF {n \in notes : n.id = req.id} = {}
    THEN [req EXCEPT !.status = 404, !.message = "Note not found!"]
    ELSE [req EXCEPT !.status = 200,
              !.out = CHOOSE n \in notes : n.id = req.id]
getNoteByIdResponse(req) ==
    IF req.caller = NoId \/ ~IsObjectId(req.id)
    THEN InternalError(req)
    ELSE IF Match(req.id, req.caller) = {}
    THEN [req EXCEPT !.status = 404, !.message = "Note not found!"]
    ELSE [req EXCEPT !.status = 200,
              !.out = CHOOSE n \in Match(req.id, req.caller) : TRUE]

getNoteById(req) ==
    /\ last' = getNoteByIdResponse(req)
    /\ UNCHANGED stores

\* new Note({ title, content, user: req.user.id }).save()
NewNoteTrustsBody(req) ==
    [id |-> NoteId(nextNote), title |-> req.body.title,
     content |-> req.body.content,
     user |-> IF req.body.user # NoId THEN req.body.user ELSE req.caller,
     createdAt |-> now, updatedAt |-> now]
NewNote(req) ==
    [id |-> NoteId(nextNote), title |-> req.body.title,
     content |-> req.body.content, user |-> req.caller,
     createdAt |-> now, updatedAt |-> now]

createNote(req) ==
    IF req.caller = NoId \/ ~NoteValid(NewNote(req))
    THEN /\ last' = InternalError(req)
         /\ UNCHANGED stores
    ELSE /\ notes' = notes \cup {NewNote(req)}
         /\ nextNote' = nextNote + 1
         /\ last' = [req EXCEPT !.status = 201, !.out = NewNote(req)]
         /\ UNCHANGED <<users, nextUser, reg, tokens>>

\* findOneAndUpdate(filter, { title, content }, { new: true }): undefined
\* fields are dropped from the update, validators do not run, the timestamps
\* option sets updatedAt
\* findOneAndUpdate(filter, req.body): the body's user field is written too
UpdatedSpreadsBody(n, req) ==
    [n EXCEPT !.title = IF req.body.title = Undefined THEN @ ELSE req.body.title,
              !.content = IF req.body.content = Undefined THEN @
                          ELSE req.body.content,
              !.user = IF req.body.user = NoId THEN @ ELSE req.body.user,
              !.updatedAt = now]
Updated(n, req) ==
    [n EXCEPT !.title = IF req.body.title = Undefined THEN @ ELSE req.body.title,
              !.content = IF req.body.content = Undefined THEN @
                          ELSE req.body.content,
              !.updatedAt = now]

\* findOneAndUpdate with { upsert: true }: without a match it inserts a
\* document made of the filter and the update
updateNoteUpserts(req) ==
    IF req.caller = NoId \/ ~IsObjectId(req.id)
    THEN /\ last' = InternalError(req)
         /\ UNCHANGED stores
    ELSE LET old == IF Match(req.id, req.caller) = {}
                    THEN [NoNote EXCEPT !.id = req.id, !.user = req.caller,
                                        !.createdAt = now]
                    ELSE CHOOSE x \in Match(req.id, req.caller) : TRUE
         IN  /\ notes' = (notes \ {old}) \cup {Updated(old, req)}
             /\ last' = [req EXCEPT !.status = 200, !.out = Updated(old, req)]
             /\ UNCHANGED <<users, nextUser, nextNote, reg, tokens>>
updateNote(req) ==
    IF req.caller = NoId \/ ~IsObjectId(req.id)
    THEN /\ last' = InternalError(req)
         /\ UNCHANGED stores
    ELSE IF Match(req.id, req.caller) = {}
    THEN /\ last' = [req EXCEPT !.status = 404, !.message = "Note not found"]
         /\ UNCHANGED stores
    ELSE LET n == CHOOSE x \in Match(req.id, req.caller) : TRUE IN
         /\ notes' = (notes \ {n}) \cup {Updated(n, req)}
         /\ last' = [req EXCEPT !.status = 200, !.out = Updated(n, req)]
         /\ UNCHANGED <<users, nextUser, nextNote, reg, tokens>>

deleteNote(req) ==
    IF req.caller = NoId \/ ~IsObjectId(req.id)
    THEN /\ last' = InternalError(req)
         /\ UNCHANGED stores
    ELSE IF Match(req.id, req.caller) = {}
    THEN /\ last' = [req EXCEPT !.status = 404, !.message = "Note not found"]
         /\ UNCHANGED stores
    ELSE /\ notes' = notes \ Match(req.id, req.caller)
         /\ last' = [req EXCEPT !.status = 200,
                        !.message = "Note deleted successfully!"]
         /\ UNCHANGED <<users, nextUser, nextNote, reg, tokens>>

\* the handler of a notes request
notesRoutes(req) ==
    CASE req.op = "getAllNotes" -> getAllNotes(req)
      [] req.op = "getNoteById" -> getNoteById(req)
      [] req.op = "createNote" -> createNote(req)
      [] req.op = "updateNote" -> updateNote(req)
      [] req.op = "deleteNote" -> deleteNote(req)
      [] OTHER -> FALSE

\* a request to /api/notes: through the middleware stack to its handler
NotesRequest(op, cred, id, body) ==
    LET by == Answerer(NotesPath, cred)
        req == [Blank EXCEPT !.op = op, !.by = by, !.cred = cred,
                             !.id = id, !.body = body,
                             !.caller = ReqUserId(NotesPath, cred)]
    IN  /\ hits' = HitsAfter(NotesPath, cred)
        /\ UNCHANGED <<now, calls, client>>
        /\ CASE by = "rateLimiter" ->
                    last' = TooManyRequests(req) /\ UNCHANGED stores
             [] by = "authMiddleware" ->
                    last' = Unauthorized(req) /\ UNCHANGED stores
             [] by = "notesRoutes" -> notesRoutes(req)
             [] OTHER -> FALSE

GetAllNotes(cred) == NotesRequest("getAllNotes", cred, NoId, NoBody)
GetNoteById(cred, id) == NotesRequest("getNoteById", cred, id, NoBody)
CreateNote(cred, body) == NotesRequest("createNote", cred, NoId, body)
UpdateNote(cred, id, body) == NotesRequest("updateNote", cred, id, body)
DeleteNote(cred, id) == NotesRequest("deleteNote", cred, id, NoBody)

\* The same request in two steps, for requests that overlap: Arrive takes it
\* through the middleware stack into its handler, up to the await of the
\* store operation; Serve is the store operation and the response.
IdleCalls == {s \in Slots : calls[s].pc = "idle"}
ServedCalls == {s \in Slots : calls[s].pc = "done"}

Arrive(op, cred, id, body) ==
    LET by == Answerer(NotesPath, cred)
        req == [Blank EXCEPT !.op = op, !.by = by, !.cred = cred,
                             !.id = id, !.body = body,
                             !.caller = ReqUserId(NotesPath, cred)]
    IN  /\ hits' = HitsAfter(NotesPath, cred)
        /\ UNCHANGED <<now, stores, client>>
        /\ CASE by = "rateLimiter" ->
                    last' = TooManyRequests(req) /\ UNCHANGED calls
             [] by = "authMiddleware" ->
                    last' = Unauthorized(req) /\ UNCHANGED calls
             [] by = "notesRoutes" ->
                    /\ IdleCalls # {}
                    /\ LET s == CHOOSE x \in IdleCalls : \A y \in IdleCalls : x <= y
                       IN  calls' = [calls EXCEPT ![s] =
                                        [pc |-> "awaiting", req |-> req,
                                         arrived |-> Cardinality(ServedCalls),
                                         served |-> 0]]
                    /\ last' = req
             [] OTHER -> FALSE

Serve(s) ==
    /\ calls[s].pc = "awaiting"
    /\ notesRoutes(calls[s].req)
    /\ calls' = [calls EXCEPT ![s] =
                    [pc |-> "done", req |-> last', arrived |-> calls[s].arrived,
                     served |-> Cardinality(ServedCalls) + 1]]
    /\ UNCHANGED <<now, hits, client>>

\* ------------------------------------------------------------ client: App
ProtectedPaths == {"/", "/create", "/note/:id"}
ProtectedPages == {"HomePage", "CreatePage", "NoteDetailPage"}
Paths == {"/login", "/register"} \cup ProtectedPaths

\* `!user`
NotUser(user) == user.type = "null"

\* ProtectedRoute: what it returns for the page it wraps
ProtectedRouteNoUserCheck(user, loading, children) ==
    IF loading THEN "Loading" ELSE children
ProtectedRoute(user, loading, children) ==
    IF loading THEN "Loading"
    ELSE IF NotUser(user) THEN "Navigate"
    ELSE children

\* <Routes>: the element of the route that matches the location
Routes(user, loading, path) ==
    CASE path = "/login" -> "Login"
      [] path = "/register" -> "Register"
      [] path = "/" -> ProtectedRoute(user, loading, "HomePage")
      [] path = "/create" -> ProtectedRoute(user, loading, "CreatePage")
      [] path = "/note/:id" -> ProtectedRoute(user, loading, "NoteDetailPage")

\* AuthProvider renders its children only once the initial check is done
Provided(user, loading, path) ==
    IF loading THEN "none" ELSE Routes(user, loading, path)

\* the application re-rendered after a change of state or location: a
\* <Navigate to="/login" /> moves the location and the login page shows
Rendered(c) ==
    IF Provided(c.user, c.loading, c.path) = "Navigate"
    THEN [c EXCEPT !.path = "/login",
                   !.page = Provided(c.user, c.loading, "/login")]
    ELSE [c EXCEPT !.page = Provided(c.user, c.loading, c.path)]

\* ------------------------------------------------------------ client: AuthContext
\* the effect AuthProvider runs once when it mounts
Mount ==
    /\ client.loading
    /\ LET token == client.token
           storedUser == client.storedUser
           checked ==
               IF Truthy(token) /\ Truthy(storedUser)
               THEN IF ParseThrows(storedUser)
                    THEN [client EXCEPT !.token = NoToken, !.storedUser = NoItem]
                    ELSE [client EXCEPT !.user = Parse(storedUser)]
               ELSE client
       IN  client' = Rendered([checked EXCEPT !.loading = FALSE, !.did = "mount"])
    /\ UNCHANGED <<users, notes, nextUser, nextNote, now, hits, reg, tokens, last,
                   calls>>

\* res.data of a successful login: { token, user: { id, username } }, the
\* user's fields being the ones the token was signed over
ResData(res) ==
    [token |-> res.token, user |-> UserObject(res.token.id, res.token.username)]

\* login(username, password) up to its await: the request is sent and the
\* server answers it
LoginPost(username, password) ==
    /\ ~client.loading
    /\ client.pending.kind = "none"
    /\ AuthRequest("login", username, password)
    /\ client' = [client EXCEPT !.pending = [kind |-> "login", res |-> last'],
                                !.did = "login"]

\* login after its await: the session is stored on success; an error
\* response is caught and changes nothing
clientLogin(res) ==
    IF res.status = 200
    THEN [client EXCEPT !.token = TokenText(ResData(res).token),
                        !.storedUser = Stringify(ResData(res).user),
                        !.user = ResData(res).user]
    ELSE client

\* Login.jsx handleSubmit after `await login(...)`: navigate('/') on success
handleSubmit(res, c) ==
    IF res.status = 200 THEN [c EXCEPT !.path = "/", !.to = "/"] ELSE c

\* the awaited reply arrives
LoginReply ==
    /\ client.pending.kind = "login"
    /\ client' = Rendered([handleSubmit(client.pending.res, clientLogin(client.pending.res))
                              EXCEPT !.pending = NoReply, !.did = "login"])
    /\ UNCHANGED <<users, notes, nextUser, nextNote, now, hits, reg, tokens, last,
                   calls>>

\* register(username, password): the request is sent; its result, success
\* or failure, changes neither the context nor localStorage
ClientRegister(username, password) ==
    /\ ~client.loading
    /\ AuthRequest("register", username, password)
    /\ client' = [client EXCEPT !.did = "register"]

\* logout that leaves localStorage alone
logoutKeepsStorage == [client EXCEPT !.user = Null]
\* logout(): both entries removed, setUser(null)
logout == [client EXCEPT !.token = NoToken, !.storedUser = NoItem, !.user = Null]

Logout ==
    /\ ~client.loading
    /\ client' = Rendered([logout EXCEPT !.did = "logout"])
    /\ UNCHANGED <<users, notes, nextUser, nextNote, now, hits, reg, tokens, last,
                   calls>>

\* ------------------------------------------------------------ client: browser
\* the location changes to path (a link, or the address bar)
Navigate(path) ==
    /\ ~client.loading
    /\ client' = Rendered([client EXCEPT !.path = path, !.to = path,
                                         !.did = "navigate"])
    /\ UNCHANGED <<users, notes, nextUser, nextNote, now, hits, reg, tokens, last,
                   calls>>

\* the page is loaded again: the application's state starts over, a reply
\* still awaited is dropped, localStorage and the location stay
Reload ==
    /\ ~client.loading
    /\ client' = NewClient(client.token, client.storedUser, client.path)
    /\ UNCHANGED <<users, notes, nextUser, nextNote, now, hits, reg, tokens, last,
                   calls>>

\* ------------------------------------------------------------ environment
\* the clock moves on to a later instant
Tick(t) ==
    /\ t > now
    /\ now' = t
    /\ UNCHANGED <<users, notes, nextUser, nextNote, hits, reg, tokens, last, calls,
                   client>>

\* the rate limiter's window ends: its counter starts again
WindowReset ==
    /\ hits > 0
    /\ hits' = 0
    /\ UNCHANGED <<users, notes, nextUser, nextNote, now, reg, tokens, last, calls,
                   client>>

\* ------------------------------------------------------------ inputs
Body(t, c, u) == [title |-> t, content |-> c, user |-> u, id |-> NoId]

\* well-formed request bodies, each carrying a client-supplied owner
CreateBody == Body("t1", "c1", UserId(1))
UpdateBody == Body("t2", "c2", UserId(1))
OtherBody == Body("t3", "c3", NoId)

\* an update body that also names an owner and an _id
ForeignBody == [UpdateBody EXCEPT !.user = UserId(2), !.id = NoteId(1)]

\* request bodies with an empty or absent title or content
BadBodies ==
    {Body("", "c1", NoId), Body(Undefined, "c2", NoId),
     Body("t1", "", NoId), Body("t2", Undefined, NoId)}

\* credentials that are no valid token: none, a malformed header, a token
\* with a bad signature naming a user
BadCreds == {NoCred, Malformed} \cup {Forged(x.id) : x \in users}

\* the ObjectIds a note may get
NoteIds == {NoteId(i) : i \in 1..MaxNotes}

\* <<username, password>> bodies of register and login: plain, with whitespace
\* around the username, too short once trimmed, empty, and for bob also
\* another, a short and an empty password
Credentials ==
    {<<Bob, Secret>>, <<SpBob, Secret>>, <<SpA, Secret>>, <<Empty, Secret>>,
     <<Bob, Hunter>>, <<Bob, Abc>>, <<Bob, Empty>>}

Instants == 0..MaxEarly \cup {59 + k : k \in 0..MaxLate}

NoneInFlight == \A s \in Slots : reg[s].pc = "idle"

\* the request is the first of its rate-limiter window
FreshWindow == hits = 0

\* ------------------------------------------------------------ specifications
\* The store-centred specification: two users registering one after the
\* other and logging in, the five notes requests with well-formed bodies, at
\* one instant, every request in a fresh window.
Next ==
    \/ FreshWindow /\ NoneInFlight /\ \E u \in {Bob, Amy} : Register(u, Secret)
    \/ \E s \in Slots : registerSave(s)
    \/ FreshWindow /\ \E u \in {Bob, Amy} : Login(u, Secret)
    \/ FreshWindow /\ \E c \in tokens : GetAllNotes(c)
    \/ FreshWindow /\ \E c \in tokens, i \in NoteIds : GetNoteById(c, i)
    \/ FreshWindow /\ nextNote <= MaxNotes
          /\ \E c \in tokens : CreateNote(c, CreateBody)
    \/ FreshWindow /\ \E c \in tokens, i \in NoteIds : UpdateNote(c, i, UpdateBody)
    \/ FreshWindow /\ \E c \in tokens, i \in NoteIds : DeleteNote(c, i)
    \/ WindowReset

Spec == Init /\ [][Next]_vars

\* The order-centred specification: two users logging in at instant 0, notes
\* created, read, listed and deleted while the clock runs over 0..MaxEarly,
\* every request in a fresh window.
NextOrder ==
    \/ FreshWindow /\ NoneInFlight /\ \E u \in {Bob, Amy} : Register(u, Secret)
    \/ \E s \in Slots : registerSave(s)
    \/ FreshWindow /\ now = 0 /\ \E u \in {Bob, Amy} : Login(u, Secret)
    \/ FreshWindow /\ \E c \in tokens : GetAllNotes(c)
    \/ FreshWindow /\ \E c \in tokens, i \in NoteIds : GetNoteById(c, i)
    \/ FreshWindow /\ nextNote <= MaxNotes
          /\ \E c \in tokens : CreateNote(c, CreateBody)
    \/ FreshWindow /\ \E c \in tokens, i \in NoteIds : DeleteNote(c, i)
    \/ \E t \in 0..MaxEarly : Tick(t)
    \/ WindowReset

SpecOrder == Init /\ [][NextOrder]_vars

\* The credential-centred specification: register and login with usernames
\* that carry whitespace or are too short and with short or empty passwords,
\* register requests interleaving between findOne and save, every request in
\* a fresh window.
NextAuth ==
    \/ FreshWindow /\ \E c \in Credentials : Register(c[1], c[2])
    \/ \E s \in Slots : registerSave(s)
    \/ FreshWindow /\ \E c \in Credentials : Login(c[1], c[2])
    \/ WindowReset

SpecAuth == Init /\ [][NextAuth]_vars

\* The time-centred specification: one user logging in at several instants
\* and presenting the tokens while the clock visits the instants around
\* their expiry, every request in a fresh window.
NextTime ==
    \/ FreshWindow /\ NoneInFlight /\ Register(Bob, Secret)
    \/ \E s \in Slots : registerSave(s)
    \/ FreshWindow /\ Login(Bob, Secret)
    \/ FreshWindow /\ \E c \in tokens : GetAllNotes(c)
    \/ FreshWindow /\ \E c \in tokens : GetNoteById(c, NoteId(1))
    \/ \E t \in Instants : Tick(t)
    \/ WindowReset

SpecTime == Init /\ [][NextTime]_vars

\* The middleware-centred specification: one user, one note, every kind of
\* credential, the rate limiter's window filling up, the clock jumping once
\* past the lifetime of the tokens minted before.
NextGate ==
    \/ NoneInFlight /\ Register(Bob, Secret)
    \/ \E s \in Slots : registerSave(s)
    \/ Login(Bob, Secret)
    \/ \E c \in BadCreds \cup tokens : GetAllNotes(c)
    \/ \E c \in BadCreds \cup tokens : GetNoteById(c, NoteId(1))
    \/ nextNote <= 1 /\ \E c \in BadCreds \cup tokens : CreateNote(c, CreateBody)
    \/ \E c \in BadCreds \cup tokens : UpdateNote(c, NoteId(1), UpdateBody)
    \/ \E c \in BadCreds \cup tokens : DeleteNote(c, NoteId(1))
    \/ Tick(TokenLifetime)
    \/ WindowReset

SpecGate == Init /\ [][NextGate]_vars

\* The input-centred specification: one user, notes requests whose id is a
\* note's, a deleted note's, a never used one or no ObjectId at all, and whose
\* body is well-formed or lacks a title or a content; a register whose
\* username is too short once trimmed; at one instant, every request in a
\* fresh window.
AnyIds == NoteIds \cup {BadId}
AnyBodies == {CreateBody, UpdateBody} \cup BadBodies

NextInput ==
    \/ FreshWindow /\ NoneInFlight /\ \E u \in {Bob, SpA, Empty} : Register(u, Secret)
    \/ \E s \in Slots : registerSave(s)
    \/ FreshWindow /\ \E p \in {Secret, Empty} : Login(Bob, p)
    \/ FreshWindow /\ \E c \in tokens : GetAllNotes(c)
    \/ FreshWindow /\ \E c \in tokens, i \in AnyIds : GetNoteById(c, i)
    \/ FreshWindow /\ nextNote <= MaxNotes
          /\ \E c \in tokens, b \in AnyBodies : CreateNote(c, b)
    \/ FreshWindow /\ \E c \in tokens, i \in AnyIds, b \in AnyBodies :
                         UpdateNote(c, i, b)
    \/ FreshWindow /\ \E c \in tokens, i \in AnyIds : DeleteNote(c, i)
    \/ WindowReset

SpecInput == Init /\ [][NextInput]_vars

\* The overlap-centred specification: one user, one note, updates and
\* deletes of that note by its owner that arrive while others await their
\* store operation, every arrival in a fresh window.
NextCalls ==
    \/ FreshWindow /\ NoneInFlight /\ Register(Bob, Secret)
    \/ \E s \in Slots : registerSave(s)
    \/ FreshWindow /\ Login(Bob, Secret)
    \/ FreshWindow /\ nextNote <= 1 /\ \E c \in tokens : CreateNote(c, CreateBody)
    \/ FreshWindow /\ \E c \in tokens, b \in {UpdateBody, OtherBody} :
                         Arrive("updateNote", c, NoteId(1), b)
    \/ FreshWindow /\ \E c \in tokens : Arrive("deleteNote", c, NoteId(1), NoBody)
    \/ \E s \in Slots : Serve(s)
    \/ WindowReset

SpecCalls == Init /\ [][NextCalls]_vars

\* The frame-centred specification: two users logging in at instant 0, notes
\* created and updated with a body that names an owner and an _id while the
\* clock runs over 0..MaxEarly, every request in a fresh window.
NextFrame ==
    \/ FreshWindow /\ NoneInFlight /\ \E u \in {Bob, Amy} : Register(u, Secret)
    \/ \E s \in Slots : registerSave(s)
    \/ FreshWindow /\ now = 0 /\ \E u \in {Bob, Amy} : Login(u, Secret)
    \/ FreshWindow /\ nextNote <= MaxNotes
          /\ \E c \in tokens : CreateNote(c, CreateBody)
    \/ FreshWindow /\ \E c \in tokens, i \in NoteIds : UpdateNote(c, i, ForeignBody)
    \/ \E t \in 0..MaxEarly : Tick(t)
    \/ WindowReset

SpecFrame == Init /\ [][NextFrame]_vars

\* The client specification: a browser that opens the application with what
\* an earlier visit left in localStorage, against the server; the user
\* registers, logs in with the right and a wrong password, logs out, moves
\* between the routes and reloads the page.
StartTokens == {NoToken, TokenText(Malformed)}
StartUsers == {NoItem, EmptyText, NotJson, Stringify(Null),
               Stringify(UserObject(UserId(1), Bob))}

InitClient ==
    /\ InitServer
    /\ \E t \in StartTokens, u \in StartUsers, p \in {"/", "/login"} :
           client = NewClient(t, u, p)

NextClient ==
    \/ Mount
    \/ FreshWindow /\ ClientRegister(Bob, Secret)
    \/ \E s \in Slots : registerSave(s)
    \/ FreshWindow /\ \E p \in {Secret, Hunter} : LoginPost(Bob, p)
    \/ LoginReply
    \/ Logout
    \/ \E p \in Paths : Navigate(p)
    \/ Reload
    \/ WindowReset

SpecClient == InitClient /\ [][NextClient]_vars

\* ------------------------------------------------------------ claims
\* Every request that arrives is recorded in last'; the ones the rate limiter
\* admits also count in hits.
Admitted == hits' = hits + 1
NotesOps == {"getAllNotes", "getNoteById", "createNote", "updateNote", "deleteNote"}
HandledNotes(op) ==
    Admitted /\ last'.op = op /\ last'.by = "notesRoutes" /\ last'.caller # NoId
HandledAuth(op) ==
    Admitted /\ last'.op = op /\ last'.step = "arrive" /\ last'.by = "authRoutes"
UserIds == {x.id : x \in users}

\* C1: getNoteById, updateNote and deleteNote called with the identity of a
\* user who does not own the note answer 404, carry none of the note's fields
\* and leave the note collection as it was.
C1_OwnershipIsolation ==
    [][\A op \in {"getNoteById", "updateNote", "deleteNote"} :
          (/\ HandledNotes(op)
           /\ \E n \in notes : n.id = last'.id /\ n.user # last'.caller)
          => /\ last'.status = 404
             /\ last'.out = NoNote
             /\ last'.list = <<>>
             /\ notes' = notes]_vars

C1_Witness ==
    /\ last.op = "updateNote"
    /\ last.status = 404
    /\ last.caller \in UserIds
    /\ \E n \in notes : n.id = last.id /\ n.user # last.caller
                        /\ n.title # last.body.title

\* C2 as stated: after a successful register(u, p) with Len(u) >= 3 and
\* Len(p) >= 6, login(u, p) answers 200 with a token whose username is u.
C2_TokenCarriesRawUsername ==
    (/\ last.op = "register"
     /\ last.status = 201
     /\ Len(last.username) >= 3
     /\ Len(last.password) >= 6)
    => LET r == loginResponse([Blank EXCEPT !.op = "login", !.by = "authRoutes",
                                            !.username = last.username,
                                            !.password = last.password])
       IN  r.status = 200 /\ r.token.username = last.username

\* C2 as amended: a successful register(u, p) stores a User whose username is
\* u trimmed and whose hash matches p, stored Users stay as they are, and
\* every login(u, p) with Len(u) >= 3 and Len(p) >= 6 for which such a User
\* is stored answers 200 with a token whose username is u trimmed.
C2_RegisterLoginRoundTrip ==
    [][/\ (last'.op = "register" /\ last'.status = 201)
          => \E x \in users' : /\ x.username = Trim(last'.username)
                               /\ Compare(last'.password, x.password)
       /\ users \subseteq users'
       /\ (/\ HandledAuth("login")
           /\ Len(last'.username) >= 3
           /\ Len(last'.password) >= 6
           /\ \E x \in users : /\ x.username = Trim(last'.username)
                               /\ Compare(last'.password, x.password))
          => /\ last'.status = 200
             /\ last'.token.kind = "jwt"
             /\ last'.token.username = Trim(last'.username)
             /\ \E x \in users : /\ x.id = last'.token.id
                                 /\ x.username = last'.token.username]_vars

C2_Witness ==
    /\ last.op = "login"
    /\ last.status = 200
    /\ last.username = SpBob
    /\ last.token.username = Bob

\* C3: once a User with the (trimmed) username is stored, which a successful
\* register leaves behind for good, a register for that username answers 400
\* 'Username already exists', starts no save and changes no stored User.
C3_DuplicateRegister ==
    [][/\ (last'.op = "register" /\ last'.status = 201)
          => \E x \in users' : x.username = Trim(last'.username)
       /\ users \subseteq users'
       /\ (/\ HandledAuth("register")
           /\ ~Falsy(last'.username)
           /\ ~Falsy(last'.password)
           /\ \E x \in users : x.username = Trim(last'.username))
          => /\ last'.status = 400
             /\ last'.message = "Username already exists"
             /\ users' = users
             /\ reg' = reg]_vars

C3_Witness ==
    /\ last.op = "register"
    /\ last.status = 400
    /\ last.message = "Username already exists"
    /\ \E x \in users : /\ x.username = Trim(last.username)
                        /\ ~Compare(last.password, x.password)

\* C4: a register whose document is valid but whose username was taken
\* between its findOne and its save answers 400 (ConflictError).
C4_ConcurrentDuplicateConflict ==
    (/\ last.op = "register"
     /\ last.step = "save"
     /\ last.status # 201
     /\ Len(Trim(last.username)) >= MinUsernameLen)
    => last.status = 400

\* C5: a login with a username and a password that does not succeed answers
\* 400 'Invalid credentials' without a token, whether or not the username
\* exists.
C5_LoginFailuresIndistinguishable ==
    (/\ last.op = "login"
     /\ last.by = "authRoutes"
     /\ ~Falsy(last.username)
     /\ ~Falsy(last.password)
     /\ last.status # 200)
    => /\ last.status = 400
       /\ last.message = "Invalid credentials"
       /\ last.token = NoCred

C5_Witness ==
    /\ last.op = "login"
    /\ last.status = 400
    /\ last.message = "Invalid credentials"
    /\ users # {}
    /\ FindUser(last.username) = {}

\* C6: getAllNotes answers 200 with exactly the stored notes of the caller,
\* each once, newest first; for a caller without notes the list is empty.
C6_ListCorrect ==
    [][HandledNotes("getAllNotes")
       => LET l == last'.list
              mine == {n \in notes : n.user = last'.caller}
          IN  /\ last'.status = 200
              /\ Range(l) = mine
              /\ Len(l) = Cardinality(mine)
              /\ \A i, j \in 1..Len(l) :
                    i < j => l[i].createdAt >= l[j].createdAt
              /\ notes' = notes]_vars

C6_Witness ==
    /\ last.op = "getAllNotes"
    /\ last.status = 200
    /\ Len(last.list) = 2
    /\ last.list[1].createdAt > last.list[2].createdAt
    /\ last.list[1].id = NoteId(2)

\* C7: createNote with a title and a content answers 201 with a record
\* under an id no stored note has, stamped with the current time and owned
\* by the caller whatever owner the body names; getNoteById by the caller
\* with that id then returns the title and the content.
C7_CreateGetRoundTrip ==
    [][(/\ HandledNotes("createNote")
        /\ last'.body.title \notin {Undefined, ""}
        /\ last'.body.content \notin {Undefined, ""})
       => /\ last'.status = 201
          /\ last'.out.id \notin {n.id : n \in notes}
          /\ last'.out.createdAt = now
          /\ last'.out.updatedAt = now
          /\ last'.out.user = last'.cred.id
          /\ \A c \in tokens, i \in NoteIds :
                (c = last'.cred /\ i = last'.out.id)
                => LET r == getNoteByIdResponse(
                                [Blank EXCEPT !.op = "getNoteById",
                                              !.by = "notesRoutes", !.cred = c,
                                              !.caller = c.id, !.id = i])'
                   IN  /\ r.status = 200
                       /\ r.out.id = i
                       /\ r.out.title = last'.body.title
                       /\ r.out.content = last'.body.content
                       /\ r.out.user = c.id]_vars

C7_Witness ==
    /\ last.op = "createNote"
    /\ last.status = 201
    /\ last.out.createdAt > 0
    /\ last.body.user \in UserIds
    /\ last.body.user # last.caller
    /\ last.out.user = last.caller
    /\ last.out \in notes

\* C8: a token minted by login at time T carries iat = T and is kept as it is;
\* presented to the gate it is accepted at every time up to T + 59 and
\* answered 401 at every time from T + 61 on.
C8_TokenLifetime ==
    [][/\ (HandledAuth("login") /\ last'.status = 200) => last'.token.iat = now
       /\ tokens \subseteq tokens'
       /\ (/\ Admitted
           /\ last'.op \in NotesOps
           /\ last'.cred.kind = "jwt")
          => /\ now <= last'.cred.iat + 59
                => (last'.by = "notesRoutes" /\ last'.status # 401)
             /\ now >= last'.cred.iat + 61
                => (last'.by = "authMiddleware" /\ last'.status = 401)]_vars

C8_Witness ==
    /\ last.op \in NotesOps
    /\ last.cred \in tokens
    /\ last.status = 401
    /\ now = last.cred.iat + 61
    /\ Cardinality(tokens) = 2

\* C9: a notes handler runs only for a request whose token is signed and
\* unexpired, and filters on the id that token carries; a request the limiter
\* admits with any other credential is answered 401 by the gate and changes
\* no note.
C9_GatePrecedesNotes ==
    [][(Admitted /\ last'.op \in NotesOps)
       => IF last'.cred.kind = "jwt" /\ now < last'.cred.exp
          THEN /\ last'.by = "notesRoutes"
               /\ last'.cred \in tokens
               /\ last'.caller = last'.cred.id
          ELSE /\ last'.by = "authMiddleware"
               /\ last'.status = 401
               /\ last'.out = NoNote
               /\ notes' = notes
               /\ nextNote' = nextNote]_vars

C9_Witness ==
    /\ last.op = "deleteNote"
    /\ last.status = 401
    /\ last.cred \in tokens
    /\ \E n \in notes : n.id = last.id /\ n.user = last.cred.id

\* C10: while the limiter's counter is at the threshold every arriving request
\* is answered 429 by the limiter and no collection changes except by a
\* register admitted earlier; under the threshold no request is answered 429;
\* the counter falls only by a window reset, to zero.
SaveStep == \E s \in Slots : reg[s].pc = "checked" /\ reg'[s].pc = "idle"
C11_HardDeleteNotFound ==
    [][/\ \A op \in {"getNoteById", "updateNote", "deleteNote"} :
             (HandledNotes(op) /\ Match(last'.id, last'.caller) = {})
             => (last'.status = 404 /\ notes' = notes)
       /\ \A i \in NoteIds :
             (i[2] < nextNote /\ \A n \in notes : n.id # i)
             => \A n \in notes' : n.id # i
       /\ HandledNotes("getAllNotes") => Range(last'.list) \subseteq notes]_vars

\* C12: every stored note has a non-empty title, a content and an owner that
\* is a stored User.
C12_NoteDataInvariant ==
    \A n \in notes :
        /\ n.title \notin {Undefined, ""}
        /\ n.content # Undefined
        /\ n.user \in UserIds

\* C13: every stored User has a trimmed username of at least 3 characters
\* that no other User has, and was registered with a password of at least 6
\* characters.
C13_UserDataInvariant ==
    \A x \in users :
        /\ x.username = Trim(x.username)
        /\ Len(x.username) >= 3
        /\ \A y \in users : y.username = x.username => y = x
        /\ Len(x.password.pre) >= 6

\* C14: a register or login without a username or a password, a register
\* whose username has fewer than 3 characters once trimmed and a createNote
\* without a title or a content are answered 400 and store no User and no
\* Note.
MalformedInput(r) ==
    \/ /\ r.op \in {"register", "login"}
       /\ r.by = "authRoutes"
       /\ (Falsy(r.username) \/ Falsy(r.password))
    \/ /\ r.op = "register"
       /\ r.by = "authRoutes"
       /\ Len(Trim(r.username)) < 3
    \/ /\ r.op = "createNote"
       /\ r.by = "notesRoutes"
       /\ r.caller # NoId
       /\ (r.body.title \in {Undefined, ""} \/ r.body.content \in {Undefined, ""})
C14_ValidationFailures400 ==
    [][(last' # last /\ MalformedInput(last') /\ last'.status # 0)
       => (last'.status = 400 /\ users' = users /\ notes' = notes)]_vars

\* C15: of the updates and deletes of one note by its owner, served in any
\* overlap, each answers 200 or 404; exactly one delete answers 200 if the
\* note was created and is gone, none otherwise (so an update never brings
\* the note back); an update served after the delete that answered 200
\* answers 404; a 200 update returns its own title and content; and the
\* stored note has both the title and the content of the update that was
\* served last with 200, or those it was created with.
CallsOn(op, i) ==
    {s \in ServedCalls : calls[s].req.op = op /\ calls[s].req.id = i}
Won(S) == {s \in S : calls[s].req.status = 200}
C15_AtomicUpdateDelete ==
    \A i \in NoteIds :
        LET D == CallsOn("deleteNote", i)
            U == CallsOn("updateNote", i)
            stored == {n \in notes : n.id = i}
        IN  /\ \A s \in D \cup U : calls[s].req.status \in {200, 404}
            /\ Cardinality(Won(D)) = IF i[2] < nextNote /\ stored = {} THEN 1 ELSE 0
            /\ \A s \in U, t \in Won(D) :
                  calls[s].served > calls[t].served => calls[s].req.status = 404
            /\ \A s \in Won(U) :
                  /\ calls[s].req.out.id = i
                  /\ calls[s].req.out.title = calls[s].req.body.title
                  /\ calls[s].req.out.content = calls[s].req.body.content
            /\ \A n \in stored :
                  IF Won(U) = {}
                  THEN n.title = CreateBody.title /\ n.content = CreateBody.content
                  ELSE LET l == CHOOSE s \in Won(U) :
                                   \A t \in Won(U) : calls[t].served <= calls[s].served
                       IN  /\ n.title = calls[l].req.body.title
                           /\ n.content = calls[l].req.body.content

\* an update and a delete of a stored note, each arrived before the other
\* was served, the delete served first
C15_Witness ==
    \E s, t \in ServedCalls :
        /\ calls[s].req.op = "updateNote"
        /\ calls[t].req.op = "deleteNote"
        /\ calls[s].arrived < calls[t].served
        /\ calls[t].arrived < calls[s].served
        /\ calls[t].served < calls[s].served
        /\ calls[t].req.status = 200
        /\ calls[s].req.status = 404

\* C16: an updateNote answered 200 replaces the caller's note of that id by
\* a note with the same id, owner and creation time, the body's title and
\* content and the current time as update time, whatever owner and _id the
\* body names; every other note and every User stay as they are; and no step
\* changes the owner or the creation time a stored note has.
C16_UpdateFrame ==
    [][/\ (HandledNotes("updateNote") /\ last'.status = 200)
          => /\ \E n \in notes :
                   /\ n.id = last'.id
                   /\ n.user = last'.caller
                   /\ notes' = (notes \ {n}) \cup {last'.out}
                   /\ last'.out = [n EXCEPT !.title = last'.body.title,
                                            !.content = last'.body.content,
                                            !.updatedAt = now]
             /\ users' = users
             /\ nextNote' = nextNote
       /\ \A n \in notes, m \in notes' :
             m.id = n.id => (m.user = n.user /\ m.createdAt = n.createdAt)]_vars

C16_Witness ==
    /\ last.op = "updateNote"
    /\ last.status = 200
    /\ last.body.user \in UserIds \ {last.caller}
    /\ last.body.id \in {n.id : n \in notes} \ {last.id}
    /\ last.out.updatedAt > last.out.createdAt
    /\ last.out \in notes

\* the client's session: the context's user and the two localStorage entries
Session(c) == <<c.user, c.token, c.storedUser>>
Present(item) == item.type # "absent"
LoggedOut(c) == c.user = Null /\ ~Present(c.token) /\ ~Present(c.storedUser)
\* the step in which an awaited login reply arrives with status 200
LoginSucceeds ==
    /\ client.pending.kind = "login" /\ client.pending.res.status = 200
    /\ client'.did = "login" /\ client'.pending.kind = "none"

\* C17: a protected page (HomePage, CreatePage, NoteDetailPage) is rendered
\* only while the auth context's user is non-null and the initial check is
\* done; with the check done and user null, a navigation to a protected path
\* ends at "/login" showing the login page; logout leaves the client logged
\* out, and a logged-out client stays logged out with no protected page
\* rendered by every step but the arrival of a successful login reply.
C17_ClientRouteGuard ==
    [][/\ client'.page \in ProtectedPages
            => (client'.user # Null /\ ~client'.loading)
       /\ (client'.did = "navigate" /\ client' # client
              /\ client'.to \in ProtectedPaths /\ client'.user = Null)
            => (client'.path = "/login" /\ client'.page = "Login")
       /\ (client'.did = "logout" /\ client' # client)
            => (LoggedOut(client') /\ client'.page \notin ProtectedPages)
       /\ (LoggedOut(client) /\ ~LoginSucceeds)
            => (LoggedOut(client') /\ client'.page \notin ProtectedPages)]_vars

\* a login has succeeded, the user has logged out since, and a navigation to
\* a protected path has been redirected to the login page
C17_Witness ==
    /\ last.op = "login" /\ last.status = 200
    /\ LoggedOut(client) /\ ~client.loading
    /\ client.did = "navigate" /\ client.to \in ProtectedPaths
    /\ client.path = "/login" /\ client.page = "Login"

====
